---- MODULE Spec2Model ----
(***************************************************************************)
(* homeassistant-entity-renamer.py as a state machine: one run of main(),  *)
(* from the parsed command line to the end of the websocket session.       *)
(* Strings are sequences of one-character strings, so that formatting,     *)
(* matching and substitution are computed, not assumed.                    *)
(***************************************************************************)
EXTENDS Integers, Sequences, FiniteSets, TLC

VARIABLES
    args,         \* argparse namespace: input_file, search_regex, replace_regex, output_file
    pc,           \* position of the run
    rest_calls,   \* number of GETs issued to /api/states
    entity_data,  \* result of list_entities: <<friendly_name, entity_id>> pairs
    rename_data,  \* the plan: <<friendly_name, entity_id, new_entity_id>> triples
    table,        \* what tabulate was given to print (header + aligned rows); <<>> = nothing printed
    csv_file,     \* what write_to_csv wrote (header + raw rows); <<>> = nothing written
    stdout,       \* the messages printed, as tags
    prompted,     \* input() was called
    answer,       \* what input() returned
    ws,           \* the websocket: "none", "failed", "open", "closed"
    wire,         \* frames sent and read on the websocket, in order
    index         \* enumerate(rename_data, start=1) position of the update loop

vars == <<args, pc, rest_calls, entity_data, rename_data, table, csv_file,
          stdout, prompted, answer, ws, wire, index>>

----------------------------------------------------------------------------
(* Bounds *)

\* most entities the hub returns from /api/states
MaxEntities == 2
\* most data rows of the input CSV file
MaxRows == 2

----------------------------------------------------------------------------
(* Values *)

\* Python's None for an argument that was not given
None == <<"None">>

\* Python truthiness of an optional string: None and "" are falsy
Truthy(x) == x # None /\ x # <<>>

Token == "ACCESS_TOKEN"

Header == <<"Friendly Name", "Current Entity ID", "New Entity ID">>

RECURSIVE SeqsUpTo(_, _)
SeqsUpTo(S, n) ==
    IF n = 0 THEN {<<>>}
    ELSE LET shorter == SeqsUpTo(S, n - 1)
         IN  shorter \cup {Append(s, x) : s \in {t \in shorter : Len(t) = n - 1}, x \in S}

\* code points of the characters used
Ord(c) ==
    CASE c = " " -> 32
      [] c = "." -> 46
      [] c = "K" -> 75
      [] c = "a" -> 97
      [] c = "b" -> 98
      [] c = "s" -> 115
      [] c = "w" -> 119

\* str < str, lexicographic by code point
RECURSIVE StrLess(_, _)
StrLess(a, b) ==
    IF b = <<>> THEN FALSE
    ELSE IF a = <<>> THEN TRUE
    ELSE IF Ord(Head(a)) < Ord(Head(b)) THEN TRUE
    ELSE IF Ord(Head(a)) > Ord(Head(b)) THEN FALSE
    ELSE StrLess(Tail(a), Tail(b))

\* str.lower() on the letters an answer can hold
LowerChar(c) ==
    CASE c = "Y" -> "y"
      [] c = "E" -> "e"
      [] c = "S" -> "s"
      [] c = "N" -> "n"
      [] OTHER -> c

Lower(s) == [k \in 1..Len(s) |-> LowerChar(s[k])]

----------------------------------------------------------------------------
(* align_strings *)

\* index of the first "." of s, 0 when there is none
DotPos(s) ==
    IF \E k \in 1..Len(s) : s[k] = "."
    THEN CHOOSE k \in 1..Len(s) : s[k] = "." /\ \A j \in 1..(k - 1) : s[j] # "."
    ELSE 0

Spaces(n) == [k \in 1..n |-> " "]

Max(S) == CHOOSE m \in S : \A x \in S : x <= m

\* f"{s_split[0]:>{max_length}}.{s_split[1]}" for a string with a period
align_string(s, max_length) ==
    IF DotPos(s) = 0 THEN s
    ELSE Spaces(max_length - (DotPos(s) - 1)) \o s

\* one pass of the column loop
AlignColumn(tbl, column) ==
    LET strings_to_align == {r \in 1..Len(tbl) : DotPos(tbl[r][column]) # 0}
    IN  IF strings_to_align = {} THEN tbl
        ELSE LET max_length == Max({DotPos(tbl[r][column]) - 1 : r \in strings_to_align})
             IN  [r \in 1..Len(tbl) |->
                    [i \in 1..Len(tbl[r]) |->
                        IF i = column THEN align_string(tbl[r][i], max_length)
                        ELSE tbl[r][i]]]

RECURSIVE AlignFrom(_, _)
AlignFrom(tbl, column) ==
    IF column > Len(tbl[1]) THEN tbl
    ELSE AlignFrom(AlignColumn(tbl, column), column + 1)

align_strings(tbl) == IF Len(tbl) = 0 THEN tbl ELSE AlignFrom(tbl, 1)

----------------------------------------------------------------------------
(* re.search and re.sub for patterns made of literal characters and the     *)
(* wildcard "." ; the replacement is literal text                           *)

\* the pattern matches s at position p
MatchAt(regex, s, p) ==
    /\ p + Len(regex) - 1 <= Len(s)
    /\ \A k \in 1..Len(regex) : regex[k] = "." \/ regex[k] = s[p + k - 1]

re_search(regex, s) == \E p \in 1..Len(s) : MatchAt(regex, s, p)

RECURSIVE SubFrom(_, _, _, _)
SubFrom(regex, repl, s, p) ==
    IF p > Len(s) THEN <<>>
    ELSE IF MatchAt(regex, s, p)
         THEN repl \o SubFrom(regex, repl, s, p + Len(regex))
         ELSE <<s[p]>> \o SubFrom(regex, repl, s, p + 1)

re_sub(regex, repl, s) == SubFrom(regex, repl, s, 1)

----------------------------------------------------------------------------
(* list_entities *)

\* sorted(entity_data, key=lambda x: x[0]): stable, ascending
InsertByName(sorted, e) ==
    LET after == {k \in 1..Len(sorted) : ~StrLess(e[1], sorted[k][1])}
        n     == IF after = {} THEN 0 ELSE Max(after)
    IN  SubSeq(sorted, 1, n) \o <<e>> \o SubSeq(sorted, n + 1, Len(sorted))

RECURSIVE SortByName(_)
SortByName(s) ==
    IF s = <<>> THEN <<>>
    ELSE InsertByName(SortByName(SubSeq(s, 1, Len(s) - 1)), s[Len(s)])

\* the entities kept by the regex filter, in the order the hub gave them
FilterEntities(data, regex) ==
    SelectSeq(data, LAMBDA e : re_search(regex, e[2]))

\* the return value of list_entities for a response of the hub
ListResult(status_code, data, regex) ==
    IF status_code = 200
    THEN SortByName(IF Truthy(regex) THEN FilterEntities(data, regex) ELSE data)
    ELSE <<>>

----------------------------------------------------------------------------
(* The inputs of a run *)

\* what the hub can hold: <<friendly_name, entity_id>>
HubEntities ==
    { << <<>>,              <<"s", ".", "a">> >>,
      << <<"K">>,           <<"s", "w", ".", "a">> >>,
      << <<"a", ".", "b">>, <<"s", ".", "b">> >> }

\* GET /api/states: a status code and the entities of the JSON array
HubStatusCodes == {200, 500}
HubResponses == SeqsUpTo(HubEntities, MaxEntities)

\* rows an input file can hold: <<Friendly Name, Current Entity ID, New Entity ID>>
FileRows ==
    { << <<>>,    <<"s", ".", "a">>,      <<"s", ".", "b">> >>,
      << <<"K">>, <<"s", "w", ".", "a">>, <<>> >>,
      << <<>>,    <<"s", ".", "b">>,      <<>> >> }

\* an input file: which optional columns its header has, and its data rows
InputFiles ==
    [ has_name : BOOLEAN, has_new : BOOLEAN, rows : SeqsUpTo(FileRows, MaxRows) ]

SearchArgs  == {None, <<>>, <<"a">>, <<"w", ".">>}
ReplaceArgs == {None, <<>>, <<"b">>}
InputArgs   == {None, <<>>, <<"f">>}
OutputArgs  == {None, <<"o">>}

\* lines the operator can type at the prompt
Answers ==
    { <<"y">>, <<"Y">>, <<"Y", "e", "S">>,
      <<>>, <<"n">>, <<"N", "o">>, <<"y", "y">> }

\* frames the hub can send
GreetingFrames   == { [type |-> "auth_required"], [type |-> "other"] }
AuthResultFrames == { [type |-> "auth_ok"], [type |-> "auth_invalid"] }

\* a response to an update: whether it is a JSON object, and the fields
\* "success" and "error" of the object
UpdateResponses ==
    { [json |-> "object", success |-> "true",   error |-> "absent"],
      [json |-> "object", success |-> "false",  error |-> "message"],
      [json |-> "object", success |-> "false",  error |-> "no_message"],
      [json |-> "object", success |-> "absent", error |-> "absent"],
      [json |-> "object", success |-> "false",  error |-> "not_object"],
      [json |-> "invalid",    success |-> "absent", error |-> "absent"] }

\* json.loads and the two .get chains go through without raising
Handled(r) ==
    /\ r.json = "object"
    /\ r.success = "true" \/ r.error # "not_object"

----------------------------------------------------------------------------
(* process_entities *)

\* parameters of process_entities as main passes them
input_filename == IF Truthy(args.search_regex) THEN None ELSE args.input_file
replace_regex  == IF Truthy(args.search_regex) THEN args.replace_regex ELSE None

\* csv.DictReader rows turned into the plan; row.get defaults a missing column to ""
PlanFromFile(f) ==
    [k \in 1..Len(f.rows) |->
        << IF f.has_name THEN f.rows[k][1] ELSE <<>>,
           f.rows[k][2],
           IF f.has_new THEN f.rows[k][3] ELSE <<>> >>]

\* the plan computed from the listed entities
PlanFromEntities(data, search, replace) ==
    [k \in 1..Len(data) |->
        << data[k][1],
           data[k][2],
           IF Truthy(replace) THEN re_sub(search, replace, data[k][2]) ELSE <<>> >>]

\* the emptiness test left out
NoDataUnchecked(rd) == FALSE

\* "if not rename_data" after reading the input file
NoData(rd) == rd = <<>>

\* the gate before the prompt: nothing to rename, return
PreviewOnly == ~Truthy(replace_regex) /\ ~Truthy(input_filename)

\* anything but an explicit "n"/"no" taken for a yes
AffirmativeUnlessNo(a) == Lower(a) \notin { <<"n">>, <<"n", "o">> }

\* answer.lower() in ["y", "yes"]
Affirmative(a) == Lower(a) \in { <<"y">>, <<"y", "e", "s">> }

\* printing the table, writing the CSV file, and the gate
Present(rd) ==
    /\ rename_data' = rd
    /\ table' = <<Header>> \o align_strings(rd)
    /\ csv_file' = IF Truthy(args.output_file) THEN <<Header>> \o rd ELSE csv_file
    /\ stdout' = stdout \o <<"table">>
                   \o (IF Truthy(args.output_file) THEN <<"table_written">> ELSE <<>>)
    /\ IF PreviewOnly
       THEN pc' = "done" /\ prompted' = prompted
       ELSE pc' = "prompt" /\ prompted' = TRUE

----------------------------------------------------------------------------
(* rename_entities *)

auth_msg == [type |-> "auth", access_token |-> Token]

\* the rows as printed handed to rename_entities
RenameArgAligned == Tail(table)

\* the argument of rename_entities: process_entities' rename_data
RenameArg == rename_data

\* the message numbered as enumerate without start=1 numbers it
UpdateMsgZeroBased(i, row) ==
    CASE row[3] # <<>> /\ row[1] # <<>> ->
            [id |-> i - 1, type |-> "config/entity_registry/update", entity_id |-> row[2],
             new_entity_id |-> row[3], name |-> row[1]]
      [] row[3] # <<>> /\ row[1] = <<>> ->
            [id |-> i - 1, type |-> "config/entity_registry/update", entity_id |-> row[2],
             new_entity_id |-> row[3]]
      [] row[3] = <<>> /\ row[1] # <<>> ->
            [id |-> i - 1, type |-> "config/entity_registry/update", entity_id |-> row[2],
             name |-> row[1]]
      [] OTHER ->
            [id |-> i - 1, type |-> "config/entity_registry/update", entity_id |-> row[2]]

\* entity_registry_update_msg for one row of the plan
UpdateMsg(i, row) ==
    LET base == [id |-> i, type |-> "config/entity_registry/update", entity_id |-> row[2]]
    IN  CASE row[3] # <<>> /\ row[1] # <<>> ->
                [id |-> i, type |-> "config/entity_registry/update", entity_id |-> row[2],
                 new_entity_id |-> row[3], name |-> row[1]]
          [] row[3] # <<>> /\ row[1] = <<>> ->
                [id |-> i, type |-> "config/entity_registry/update", entity_id |-> row[2],
                 new_entity_id |-> row[3]]
          [] row[3] = <<>> /\ row[1] # <<>> ->
                [id |-> i, type |-> "config/entity_registry/update", entity_id |-> row[2],
                 name |-> row[1]]
          [] OTHER -> base

\* the handshake without the read of the auth result
HandshakeNextNoAuthResult(at) ==
    CASE at = "connect"           -> "recv_auth_request"
      [] at = "recv_auth_request" -> "send_auth"
      [] at = "send_auth"         -> "loop"
      [] at = "recv_auth_result"  -> "loop"

\* the order of the awaits before the loop
HandshakeNext(at) ==
    CASE at = "connect"           -> "recv_auth_request"
      [] at = "recv_auth_request" -> "send_auth"
      [] at = "send_auth"         -> "recv_auth_result"
      [] at = "recv_auth_result"  -> "loop"

\* a response that does not parse answered by sending the row again
OnExceptionRetry(at) == IF at = "parse_update" THEN "loop" ELSE "raised"

\* where the run goes when an await or the parsing raises: nothing catches it
OnException(at) == "raised"

\* a connection nobody closes
AsyncWithExitLeak(conn) == conn

\* __aexit__ of "async with websockets.connect(...)": the connection is closed
AsyncWithExit(conn) == "closed"

\* a rejected rename ending the run
AfterResultStopOnFailure(r) == IF r.success = "true" THEN "loop" ELSE "raised"

\* where the loop goes after a response was parsed: both branches only print
AfterResult(r) == "loop"

\* the line printed for a parsed response
ResultLine(r) ==
    IF r.success = "true" THEN "updated"
    ELSE IF r.error = "message" THEN "failed_with_message"
    ELSE "failed_unknown_error"

Sent(frame) == [dir |-> "send", frame |-> frame]
Read(frame) == [dir |-> "recv", frame |-> frame]

\* an await on the open websocket raises (connection lost): the scope unwinds
Raise(at) ==
    /\ pc' = OnException(at)
    /\ ws' = AsyncWithExit(ws)

----------------------------------------------------------------------------
(* The run *)

Init ==
    /\ args \in [ input_file : InputArgs, search_regex : SearchArgs,
                  replace_regex : ReplaceArgs, output_file : OutputArgs ]
    /\ pc = "main"
    /\ rest_calls = 0
    /\ entity_data = <<>>
    /\ rename_data = <<>>
    /\ table = <<>>
    /\ csv_file = <<>>
    /\ stdout = <<>>
    /\ prompted = FALSE
    /\ answer = <<>>
    /\ ws = "none"
    /\ wire = <<>>
    /\ index = 1

\* main: the validation of the argument combination and the dispatch
Main ==
    /\ pc = "main"
    /\ IF Truthy(args.search_regex) /\ Truthy(args.input_file)
       THEN pc' = "done" /\ stdout' = stdout \o <<"error_search_and_input_file">>
       ELSE IF Truthy(args.replace_regex) /\ ~Truthy(args.search_regex)
       THEN pc' = "done" /\ stdout' = stdout \o <<"error_replace_requires_search">>
       ELSE IF Truthy(args.search_regex)
       THEN pc' = "list_entities" /\ stdout' = stdout
       ELSE IF Truthy(args.input_file)
       THEN pc' = "process_entities" /\ stdout' = stdout
       ELSE pc' = "done" /\ stdout' = stdout \o <<"help">>
    /\ UNCHANGED <<args, rest_calls, entity_data, rename_data, table, csv_file,
                   prompted, answer, ws, wire, index>>

\* list_entities(args.search_regex) and main's test of its result
ListEntities ==
    /\ pc = "list_entities"
    /\ \E status_code \in HubStatusCodes, data \in HubResponses :
         LET result == ListResult(status_code, data, args.search_regex)
             error  == IF status_code = 200 THEN <<>> ELSE <<"error_status">>
         IN  /\ rest_calls' = rest_calls + 1
             /\ entity_data' = result
             /\ IF result # <<>>
                THEN pc' = "process_entities" /\ stdout' = stdout \o error
                ELSE pc' = "done" /\ stdout' = stdout \o error \o <<"no_entities">>
    /\ UNCHANGED <<args, rename_data, table, csv_file, prompted, answer, ws, wire, index>>

\* process_entities up to the prompt, the plan taken from the input file
ProcessInputFile ==
    /\ pc = "process_entities"
    /\ Truthy(input_filename)
    /\ \/ \E f \in InputFiles :
            IF NoData(PlanFromFile(f))
            THEN /\ pc' = "done"
                 /\ stdout' = stdout \o <<"no_data">>
                 /\ UNCHANGED <<rename_data, table, csv_file, prompted>>
            ELSE Present(PlanFromFile(f))
       \/ \* open() raises: no such file
          /\ pc' = OnException("open")
          /\ UNCHANGED <<rename_data, table, csv_file, prompted, stdout>>
    /\ UNCHANGED <<args, rest_calls, entity_data, answer, ws, wire, index>>

\* process_entities up to the prompt, the plan computed from the listed entities
ProcessListed ==
    /\ pc = "process_entities"
    /\ ~Truthy(input_filename)
    /\ Present(PlanFromEntities(entity_data, args.search_regex, replace_regex))
    /\ UNCHANGED <<args, rest_calls, entity_data, answer, ws, wire, index>>

\* input() returns, and the test of the answer
ReadAnswer ==
    /\ pc = "prompt"
    /\ \E a \in Answers :
         /\ answer' = a
         /\ IF Affirmative(a)
            THEN pc' = "connect" /\ stdout' = stdout
            ELSE pc' = "done" /\ stdout' = stdout \o <<"aborted">>
    /\ UNCHANGED <<args, rest_calls, entity_data, rename_data, table, csv_file,
                   prompted, ws, wire, index>>

\* websockets.connect
Connect ==
    /\ pc = "connect"
    /\ \/ ws' = "open" /\ pc' = HandshakeNext("connect")
       \/ ws' = "failed" /\ pc' = OnException("connect")
    /\ UNCHANGED <<args, rest_calls, entity_data, rename_data, table, csv_file,
                   stdout, prompted, answer, wire, index>>

\* auth_request = await websocket.recv()
RecvAuthRequest ==
    /\ pc = "recv_auth_request"
    /\ \/ \E frame \in GreetingFrames :
            /\ wire' = Append(wire, Read(frame))
            /\ pc' = HandshakeNext("recv_auth_request")
            /\ ws' = ws
       \/ Raise("recv_auth_request") /\ wire' = wire
    /\ UNCHANGED <<args, rest_calls, entity_data, rename_data, table, csv_file,
                   stdout, prompted, answer, index>>

\* await websocket.send(auth_msg)
SendAuth ==
    /\ pc = "send_auth"
    /\ \/ /\ wire' = Append(wire, Sent(auth_msg))
          /\ pc' = HandshakeNext("send_auth")
          /\ ws' = ws
       \/ Raise("send_auth") /\ wire' = wire
    /\ UNCHANGED <<args, rest_calls, entity_data, rename_data, table, csv_file,
                   stdout, prompted, answer, index>>

\* auth_result = await websocket.recv()
RecvAuthResult ==
    /\ pc = "recv_auth_result"
    /\ \/ \E frame \in AuthResultFrames :
            /\ wire' = Append(wire, Read(frame))
            /\ pc' = HandshakeNext("recv_auth_result")
            /\ ws' = ws
       \/ Raise("recv_auth_result") /\ wire' = wire
    /\ UNCHANGED <<args, rest_calls, entity_data, rename_data, table, csv_file,
                   stdout, prompted, answer, index>>

\* one iteration of the loop up to its send
SendUpdate ==
    /\ pc = "loop"
    /\ index <= Len(RenameArg)
    /\ \/ /\ wire' = Append(wire, Sent(UpdateMsg(index, RenameArg[index])))
          /\ pc' = "recv_update"
          /\ ws' = ws
       \/ Raise("send_update") /\ wire' = wire
    /\ UNCHANGED <<args, rest_calls, entity_data, rename_data, table, csv_file,
                   stdout, prompted, answer, index>>

\* the rest of the iteration: the response is read, parsed and reported
RecvUpdate ==
    /\ pc = "recv_update"
    /\ \/ \E r \in UpdateResponses :
            /\ wire' = Append(wire, Read(r))
            /\ IF Handled(r)
               THEN /\ stdout' = stdout \o <<ResultLine(r)>>
                    /\ index' = index + 1
                    /\ pc' = AfterResult(r)
                    /\ ws' = ws
               ELSE /\ Raise("parse_update")
                    /\ UNCHANGED <<stdout, index>>
       \/ Raise("recv_update") /\ UNCHANGED <<wire, stdout, index>>
    /\ UNCHANGED <<args, rest_calls, entity_data, rename_data, table, csv_file,
                   prompted, answer>>

\* the loop is exhausted: the async with block ends
ExitLoop ==
    /\ pc = "loop"
    /\ index > Len(RenameArg)
    /\ ws' = AsyncWithExit(ws)
    /\ pc' = "done"
    /\ UNCHANGED <<args, rest_calls, entity_data, rename_data, table, csv_file,
                   stdout, prompted, answer, wire, index>>

Next ==
    \/ Main
    \/ ListEntities
    \/ ProcessInputFile
    \/ ProcessListed
    \/ ReadAnswer
    \/ Connect
    \/ RecvAuthRequest
    \/ SendAuth
    \/ RecvAuthResult
    \/ SendUpdate
    \/ RecvUpdate
    \/ ExitLoop

Spec == Init /\ [][Next]_vars

----------------------------------------------------------------------------
(* Properties *)

\* wire[p] is an update request
IsUpdate(p) == wire[p].dir = "send" /\ wire[p].frame.type = "config/entity_registry/update"

\* the update requests among the first p frames
UpdatesUpTo(p) == {q \in 1..p : IsUpdate(q)}
NumUpdates == Cardinality(UpdatesUpTo(Len(wire)))

\* the control channel was touched: a connection attempt or a frame
ChannelUsed == ws # "none" \/ wire # <<>>

\* "y" and "yes" in every mix of cases
YesAnswers ==
    { <<"y">>, <<"Y">> }
    \cup { <<a, b, c>> : a \in {"y", "Y"}, b \in {"e", "E"}, c \in {"s", "S"} }

\* C1: once the prompt was answered with anything but y/yes in any mix of
\* cases (the empty answer included), the run has ended with no connection
\* attempt and no frame; the channel is only ever used after such a yes.
C1_DeclineSendsNothing ==
    /\ (prompted /\ pc # "prompt" /\ answer \notin YesAnswers)
          => (pc = "done" /\ ~ChannelUsed /\ stdout[Len(stdout)] = "aborted")
    /\ ChannelUsed => (prompted /\ pc # "prompt" /\ answer \in YesAnswers)

C1_Witness ==
    /\ prompted /\ pc = "done" /\ ~ChannelUsed
    /\ answer = <<>>
    /\ args.replace_regex = <<"b">>

\* C2 (as claimed): once the plan is rendered, the prompt is skipped exactly
\* when the plan comes from a search with no --replace supplied and no input
\* file; then nothing is prompted and the channel is never used.
C2_PromptSkippedIffPreview ==
    (table # <<>>) =>
        LET preview == args.replace_regex = None /\ ~Truthy(input_filename)
        IN  /\ prompted <=> ~preview
            /\ preview => ~ChannelUsed

\* C3: the k-th update request carries id k and row k of the plan, a frame
\* was read right before it, and the request before that frame is update k-1:
\* one response between two requests, never two requests in a row.
C3_OneOutstanding ==
    /\ \A p \in 1..Len(wire) :
         IsUpdate(p) =>
            LET k == Cardinality(UpdatesUpTo(p))
            IN  /\ wire[p].frame.id = k
                /\ k <= Len(rename_data)
                /\ wire[p].frame.entity_id = rename_data[k][2]
                /\ p > 1 /\ wire[p - 1].dir = "recv"
                /\ k > 1 => IsUpdate(p - 2)
    /\ NumUpdates - Cardinality({p \in 1..Len(wire) : p > 3 /\ wire[p].dir = "recv"})
          \in {0, 1}

C3_Witness ==
    /\ Len(wire) >= 6
    /\ IsUpdate(4) /\ wire[5].dir = "recv" /\ IsUpdate(6)
    /\ wire[6].frame.id = 2

C4_Inv ==
    (pc = "done" /\ ws = "closed")
       => /\ NumUpdates = Len(rename_data)
          /\ Len(wire) = 2 * Len(rename_data) + 3
          /\ \A k \in 1..Len(rename_data) :
               IsUpdate(2 * k + 2) /\ wire[2 * k + 2].frame.entity_id = rename_data[k][2]

\* a response to an update is read and parses
ReadsHandled ==
    /\ pc = "recv_update"
    /\ wire' # wire
    /\ Handled(wire'[Len(wire')].frame)

\* C4: when a response parses, whatever its success field, the loop goes on
\* to the next row with the connection open and a line is printed; a run
\* that leaves the loop normally has sent exactly one update per row, in
\* plan order.
C4_RejectionDoesNotStop ==
    /\ []C4_Inv
    /\ [][ReadsHandled => /\ pc' = "loop" /\ ws' = "open" /\ index' = index + 1
                          /\ Len(stdout') = Len(stdout) + 1]_vars

C4_Witness ==
    /\ pc = "done" /\ ws = "closed"
    /\ Len(rename_data) = 2
    /\ wire[5].frame.success = "false"
    /\ IsUpdate(6)
    /\ wire[7].frame.success = "absent"

\* the last frame read is a response to an update that does not parse
LastIsMalformed ==
    /\ Len(wire) > 3
    /\ wire[Len(wire)].dir = "recv"
    /\ ~Handled(wire[Len(wire)].frame)

C5_Inv ==
    /\ LastIsMalformed => (pc = "raised" /\ NumUpdates = index)
    /\ \A p, q \in 1..Len(wire) :
         (IsUpdate(p) /\ IsUpdate(q) /\ p # q) => wire[p].frame.id # wire[q].frame.id
    /\ pc = "raised" =>
         /\ NumUpdates \in {index - 1, index}
         /\ \A p \in 1..Len(wire) :
              wire[p].dir = "send" =>
                 \/ p = 2 /\ wire[p].frame.type = "auth"
                 \/ IsUpdate(p) /\ wire[p].frame.id <= index
                      /\ wire[p].frame.entity_id = rename_data[wire[p].frame.id][2]

\* C5: a failure at row i is final: the response that does not parse ends the
\* run, no row is ever sent twice, the frames sent are the auth frame and
\* the updates of rows 1..i and nothing else, and nothing happens afterwards.
C5_FailureIsFatal == []C5_Inv /\ [][pc # "raised"]_vars

C5_Witness ==
    /\ pc = "raised"
    /\ Len(rename_data) = 2
    /\ Len(wire) = 7
    /\ wire[5].frame.success = "true"
    /\ wire[7].frame.json = "invalid"

InsideScope ==
    pc \in {"recv_auth_request", "send_auth", "recv_auth_result", "loop", "recv_update"}

\* C6: the connection is open exactly while the run is inside the scoped
\* block; it leaves the open state only by being closed, as the run ends;
\* once closed it stays closed and no frame is sent or read.
C6_ClosedOnEveryExit ==
    /\ [](ws = "open" <=> InsideScope)
    /\ [][(ws = "open" /\ ~InsideScope') => (ws' = "closed" /\ pc' \in {"done", "raised"})]_vars
    /\ [][ws = "closed" => (ws' = "closed" /\ wire' = wire)]_vars

C6_Witness ==
    /\ pc = "raised" /\ ws = "closed"
    /\ Len(wire) = 5
    /\ wire[5].frame.json = "invalid"
    /\ Len(rename_data) = 2

\* C7: the k-th update request has entity_id = the current id of row k,
\* new_entity_id exactly when the new id is not empty, name exactly when the
\* friendly name is not empty, each with the raw value of the plan.
C7_FrameCarriesRawRow ==
    \A p \in 1..Len(wire) :
        IsUpdate(p) =>
            LET k   == Cardinality(UpdatesUpTo(p))
                f   == wire[p].frame
                row == rename_data[k]
            IN  /\ f.entity_id = row[2]
                /\ ("new_entity_id" \in DOMAIN f) <=> (row[3] # <<>>)
                /\ ("new_entity_id" \in DOMAIN f) => f.new_entity_id = row[3]
                /\ ("name" \in DOMAIN f) <=> (row[1] # <<>>)
                /\ ("name" \in DOMAIN f) => f.name = row[1]
                /\ csv_file # <<>> => csv_file[k + 1] = row

\* an update went out for a row that the table shows padded
C7_Witness ==
    /\ Len(wire) >= 4 /\ IsUpdate(4)
    /\ table[2][2] # rename_data[1][2]
    /\ "new_entity_id" \in DOMAIN wire[4].frame
    /\ "name" \notin DOMAIN wire[4].frame

\* C8 (as claimed, its no-action part): with --search and --input-file both
\* given, or --replace given without --search, no REST call is issued, no
\* plan is built or rendered, no output file is written, nothing is prompted
\* and the channel is not used; with neither --search nor --input-file only
\* the help is printed.
C8_InvalidFlagsTakeNoAction ==
    LET given(x)  == x # None
        invalid   == \/ given(args.search_regex) /\ given(args.input_file)
                     \/ given(args.replace_regex) /\ ~given(args.search_regex)
        neither   == ~given(args.search_regex) /\ ~given(args.input_file)
        no_action == /\ rest_calls = 0 /\ rename_data = <<>> /\ table = <<>>
                     /\ csv_file = <<>> /\ ~prompted /\ ~ChannelUsed
    IN  /\ invalid => no_action
        /\ (neither /\ ~invalid /\ pc # "main")
              => (pc = "done" /\ no_action /\ stdout = <<"help">>)

\* C9: a run on an input file that is past the reading of the file with an
\* empty plan has reported "no data" and ended: no table, no output file, no
\* prompt, no connection.
C9_EmptyFileNoPlan ==
    (/\ Truthy(args.input_file) /\ ~Truthy(args.search_regex) /\ ~Truthy(args.replace_regex)
     /\ pc \notin {"main", "process_entities", "raised"}
     /\ rename_data = <<>>)
      => /\ pc = "done"
         /\ stdout = <<"no_data">>
         /\ table = <<>> /\ csv_file = <<>>
         /\ ~prompted /\ ~ChannelUsed

C9_Witness ==
    /\ pc = "done" /\ stdout = <<"no_data">>
    /\ args.input_file = <<"f">>
    /\ args.output_file = <<"o">>
    /\ csv_file = <<>>

\* C10: the frames of a session are, in order, one frame read, the auth
\* frame with the access token, one frame read, then the first update; and
\* the read of the auth result always leads to the loop, whatever it holds.
C10_HandshakeThenUpdates ==
    /\ [](/\ Len(wire) >= 1 => wire[1].dir = "recv"
          /\ Len(wire) >= 2 => wire[2] = Sent([type |-> "auth", access_token |-> Token])
          /\ Len(wire) >= 3 => wire[3].dir = "recv"
          /\ Len(wire) >= 4 => (IsUpdate(4) /\ wire[4].frame.id = 1)
          /\ \A p \in 1..Len(wire) : IsUpdate(p) => p >= 4)
    /\ [][(pc = "recv_auth_result" /\ wire' # wire)
            => (pc' = "loop" /\ ws' = "open" /\ index' = 1 /\ Len(wire') = 3)]_vars

C10_Witness ==
    /\ Len(wire) >= 4
    /\ wire[3].frame.type = "auth_invalid"
    /\ IsUpdate(4)

====
